---- MODULE Spec2Model ----
(***************************************************************************)
(* The structure-chart compiler of extensions/structure_chart.py:          *)
(* StructureChartGenerator.parse, _calculate_positions, _position_tree    *)
(* and generate_svg, as a state machine over one compile call, and         *)
(* StructureChartPreprocessor.run, as a state machine over one document.   *)
(*                                                                         *)
(* A DSL text is a sequence of lines; a line is its leading-space count    *)
(* and its whitespace-separated words; a word is its characters without    *)
(* the double quote it may start and end with (lq, rq).  Coordinates are   *)
(* integers: every cursor value is a multiple of 160 and every division    *)
(* by two the code performs on them is exact.  Positions along a line      *)
(* (0.3, 0.5, 0.7, 0.85) are kept as percentages.                          *)
(***************************************************************************)
EXTENDS Integers, Sequences, FiniteSets, TLC

VARIABLES
    chart_def,      \* self.chart_def: the DSL text, a sequence of lines
    pc,             \* position of the compile call
    modules,        \* self.modules: dict id -> module data, in insertion order
    connections,    \* self.connections
    conditionals,   \* self.conditionals
    loops,          \* self.loops
    storages,       \* self.storages
    levels,         \* self.levels: dict level -> list of module ids
    children,       \* _calculate_positions: children (parent_id -> child ids)
    parents,        \* _calculate_positions: parents (child_id -> parent_id)
    writes,         \* history: how often lines 257-259 ran for each module id
    svg,            \* the returned markup: its root and its groups in order
    exc,            \* the exception that left the compile call, or "none"
    run_lines,      \* StructureChartPreprocessor.run: lines, the document
    run_i,          \* run: i, the index of the next document line (0-based)
    in_structure_chart, \* run: in_structure_chart
    chart_lines,    \* run: chart_lines
    new_lines,      \* run: new_lines
    run_pc,         \* position of the run call
    compiled        \* history: the text, markup and id of every compile so far

gen_vars == <<chart_def, pc, modules, connections, conditionals, loops, storages,
              levels, children, parents, writes, svg, exc>>

run_vars == <<run_lines, run_i, in_structure_chart, chart_lines, new_lines,
              run_pc, compiled>>

vars == <<gen_vars, run_vars>>

(***************************************************************************)
(* Program constants                                                       *)
(***************************************************************************)
MODULE_WIDTH == 120
MODULE_HEIGHT == 50
MODULE_SPACING_X == 40
MODULE_SPACING_Y == 80
line_positions == <<30, 50, 70, 85>>

(***************************************************************************)
(* Bounds of the model                                                     *)
(***************************************************************************)
MaxLines == 4        \* lines of a DSL text under Spec
MaxFan == 11         \* parallel connections of a DSL text under SpecFan
RecursionLimit == 6  \* frames of _position_tree the interpreter allows
MaxItems == 3        \* fenced blocks and loose lines of a document under SpecDoc
MaxTail == 3         \* words after the kind of the connection under SpecConn
MaxExtra == 4        \* lines after the two module lines under SpecRender
MaxEdges == 3        \* lines after the three module lines under SpecForest
MaxWords == 4        \* words of the module label under SpecWrap

(***************************************************************************)
(* Words and lines of the DSL text                                         *)
(***************************************************************************)
W(s) == [lq |-> FALSE, w |-> s, rq |-> FALSE]
Q(s) == [lq |-> TRUE, w |-> s, rq |-> TRUE]
QL(s) == [lq |-> TRUE, w |-> s, rq |-> FALSE]
QR(s) == [lq |-> FALSE, w |-> s, rq |-> TRUE]
Line(n, ts) == [indent |-> n, toks |-> ts]

\* The characters of a word, quotes included.
Text(t) == (IF t.lq THEN "\"" ELSE "") \o t.w \o (IF t.rq THEN "\"" ELSE "")

\* ' '.join of the words' characters.
RECURSIVE Join(_)
Join(ts) ==
    IF ts = <<>> THEN ""
    ELSE IF Len(ts) = 1 THEN Text(ts[1])
    ELSE Text(ts[1]) \o " " \o Join(Tail(ts))

\* str.strip('"') of the joined words: the quote the text starts with and
\* the quote it ends with are dropped, quotes inside stay.
StripQuotes(ts) ==
    IF ts = <<>> THEN ""
    ELSE LET n == Len(ts)
             unq == [i \in 1..n |->
                       [lq |-> IF i = 1 THEN FALSE ELSE ts[i].lq,
                        w  |-> ts[i].w,
                        rq |-> IF i = n THEN FALSE ELSE ts[i].rq]]
         IN Join(unq)

\* \w+ : a word of word characters only (no quote, not an arrow or a hash).
IsWordChars(t) == ~t.lq /\ ~t.rq /\ t.w \notin {"->", "#"}

Drop(s, k) == SubSeq(s, k + 1, Len(s))

(***************************************************************************)
(* parse: lines 52-191                                                     *)
(***************************************************************************)

\* self.chart_def.strip().split('\n'), line 54: blank lines at both ends go,
\* and so does the indentation of the first line that is left.
RECURSIVE DropLeadingBlank(_)
DropLeadingBlank(t) ==
    IF t # <<>> /\ t[1].toks = <<>> THEN DropLeadingBlank(Tail(t)) ELSE t

RECURSIVE DropTrailingBlank(_)
DropTrailingBlank(t) ==
    IF t # <<>> /\ t[Len(t)].toks = <<>>
    THEN DropTrailingBlank(SubSeq(t, 1, Len(t) - 1)) ELSE t

StripText(t) ==
    LET s == DropTrailingBlank(DropLeadingBlank(t))
    IN IF s = <<>> THEN <<>>
       ELSE <<[s[1] EXCEPT !.indent = 0]>> \o Tail(s)

\* The collections of a generator whose class keeps them for every instance:
\* a new instance finds what the instance before it left.
EmptyParse_Carried ==
    [modules |-> modules, connections |-> connections,
     conditionals |-> conditionals, loops |-> loops, storages |-> storages,
     levels |-> levels, exc |-> "none"]

\* The parser's collections, as __init__ creates them for each instance.
EmptyParse ==
    [modules |-> <<>>, connections |-> <<>>, conditionals |-> <<>>,
     loops |-> <<>>, storages |-> <<>>, levels |-> <<>>, exc |-> "none"]

\* DictSet with every declaration kept as an entry of its own (a list of
\* declarations in place of the dict).
DictSet_KeepEvery(mods, rec) == Append(mods, rec)

\* DictSet that keeps the value a known key already has.
DictSet_KeepFirst(mods, rec) ==
    IF \E i \in 1..Len(mods) : mods[i].id = rec.id THEN mods ELSE Append(mods, rec)

\* self.modules[module_id] = {...}: a new key goes last, a known key keeps
\* its place and gets the new value.
DictSet(mods, rec) ==
    IF \E i \in 1..Len(mods) : mods[i].id = rec.id
    THEN [i \in 1..Len(mods) |-> IF mods[i].id = rec.id THEN rec ELSE mods[i]]
    ELSE Append(mods, rec)

\* self.levels[level].append(module_id), lines 93-95.
LevelsAppend(lv, level, id) ==
    IF level \in DOMAIN lv
    THEN [lv EXCEPT ![level] = Append(@, id)]
    ELSE lv @@ (level :> <<id>>)

\* "([^"]+)" matched from word i on: the words between the opening quote
\* and the next quote.  ok is FALSE when there is no such pair of quotes.
RECURSIVE LabelUpTo(_, _, _)
LabelUpTo(c, j, acc) ==
    IF j > Len(c) THEN [ok |-> FALSE, words |-> <<>>]
    ELSE IF c[j].lq THEN [ok |-> TRUE, words |-> acc]
    ELSE IF c[j].rq THEN [ok |-> TRUE, words |-> Append(acc, c[j].w)]
    ELSE LabelUpTo(c, j + 1, Append(acc, c[j].w))

QuotedLabel(c, i) ==
    IF i > Len(c) \/ ~c[i].lq THEN [ok |-> FALSE, words |-> <<>>]
    ELSE IF c[i].rq THEN [ok |-> TRUE, words |-> <<c[i].w>>]
    ELSE LabelUpTo(c, i + 1, <<c[i].w>>)

\* re.match(r'<keyword>\s+(\w+)\s+"([^"]+)"', content)
DeclMatch(c) ==
    IF Len(c) >= 3 /\ IsWordChars(c[2])
    THEN LET l == QuotedLabel(c, 3)
         IN [ok |-> l.ok, id |-> c[2].w, label |-> l.words]
    ELSE [ok |-> FALSE, id |-> "", label |-> <<>>]

NewModule(id, label, level, type) ==
    [id |-> id, label |-> label, level |-> level, type |-> type,
     placed |-> FALSE, x |-> 0, y |-> 0]

_parse_module(ps, c, level) ==
    LET m == DeclMatch(c)
    IN IF m.ok
       THEN [ps EXCEPT
               !.modules = DictSet(@, NewModule(m.id, m.label, level, "module")),
               !.levels = LevelsAppend(@, level, m.id)]
       ELSE ps

_parse_library(ps, c, level) ==
    LET m == DeclMatch(c)
    IN IF m.ok
       THEN [ps EXCEPT
               !.modules = DictSet(@, NewModule(m.id, m.label, level, "library")),
               !.levels = LevelsAppend(@, level, m.id)]
       ELSE ps

_parse_storage(ps, c, level) ==
    LET m == DeclMatch(c)
    IN IF m.ok
       THEN [ps EXCEPT !.storages =
               Append(@, [id |-> m.id, label |-> m.label, level |-> level])]
       ELSE ps

Texts(ts) == [i \in 1..Len(ts) |-> Text(ts[i])]

_parse_conditional(ps, c) ==
    LET parts == Texts(Tail(c))
    IN IF Len(parts) < 2 THEN ps
       ELSE [ps EXCEPT !.conditionals =
               Append(@, [from |-> parts[1], to_list |-> Tail(parts)])]

\* re.match(r'loop\s+over\s+(.+)', content)
_parse_loop(ps, c) ==
    IF Len(c) >= 3 /\ c[2] = W("over")
    THEN [ps EXCEPT !.loops = Append(@, Texts(Drop(c, 2)))]
    ELSE ps

ArrowAt(c) == {i \in 1..Len(c) : c[i].w = "->"}

_parse_connection(ps, c) ==
    IF Cardinality(ArrowAt(c)) # 1 THEN ps       \* len(parts) != 2
    ELSE LET k == CHOOSE i \in ArrowAt(c) : TRUE
             from_id == Join(SubSeq(c, 1, k - 1))
             after == Drop(c, k)
             \* rest = parts[1].strip().split(None, 3): rest[3] is all that
             \* follows the third word
             nrest == IF Len(after) > 4 THEN 4 ELSE Len(after)
         IN IF nrest = 0 THEN [ps EXCEPT !.exc = "IndexError"]   \* rest[0]
            ELSE LET to_id == Text(after[1])
                     conn_type == IF nrest > 1 THEN Text(after[2]) ELSE "normal"
                     isdir == nrest > 2 /\ Text(after[3]) \in {"forward", "backward"}
                     direction == IF isdir THEN Text(after[3]) ELSE "forward"
                     label == IF nrest > 2
                              THEN IF isdir
                                   THEN IF nrest > 3 THEN StripQuotes(Drop(after, 3))
                                        ELSE ""
                                   ELSE StripQuotes(<<after[3]>>)
                              ELSE ""
                 IN [ps EXCEPT !.connections =
                       Append(@, [from |-> from_id, to |-> to_id, type |-> conn_type,
                                  direction |-> direction, label |-> label])]

StartsWith(c, kw) == Len(c) >= 2 /\ c[1] = W(kw)

\* The body of the for loop, lines 57-79.
ParseLine(ps, line) ==
    LET c == line.toks
        level == line.indent \div 2
    IN IF c = <<>> \/ (c[1].w = "#" /\ ~c[1].lq) THEN ps
       ELSE IF StartsWith(c, "module") THEN _parse_module(ps, c, level)
       ELSE IF StartsWith(c, "library") THEN _parse_library(ps, c, level)
       ELSE IF StartsWith(c, "storage") THEN _parse_storage(ps, c, level)
       ELSE IF StartsWith(c, "conditional") THEN _parse_conditional(ps, c)
       ELSE IF StartsWith(c, "loop") THEN _parse_loop(ps, c)
       ELSE IF ArrowAt(c) # {} THEN _parse_connection(ps, c)
       ELSE ps

\* The for loop: an exception ends it.
RECURSIVE ParseLines(_, _)
ParseLines(ps, ls) ==
    IF ls = <<>> \/ ps.exc # "none" THEN ps
    ELSE ParseLines(ParseLine(ps, ls[1]), Tail(ls))

parse(text) == ParseLines(EmptyParse, StripText(text))

(***************************************************************************)
(* _calculate_positions and _position_tree: lines 193-261                  *)
(***************************************************************************)
HasKey(mods, id) == \E i \in 1..Len(mods) : mods[i].id = id
Lookup(mods, id) == mods[CHOOSE i \in 1..Len(mods) : mods[i].id = id]
Keys(mods) == [i \in 1..Len(mods) |-> mods[i].id]
InSeq(x, s) == \E i \in 1..Len(s) : s[i] = x

\* children.get(module_id, [])
ChildrenOf(ch, id) == IF id \in DOMAIN ch THEN ch[id] ELSE <<>>

\* AddConnections with line 205 guarded the way line 215 is: a parent once
\* recorded is kept.
RECURSIVE AddConnections_KeepFirst(_, _)
AddConnections_KeepFirst(h, conns) ==
    IF conns = <<>> THEN h
    ELSE LET parent == conns[1].from
             child == conns[1].to
             ch == IF parent \in DOMAIN h.children THEN h.children
                   ELSE h.children @@ (parent :> <<>>)
         IN AddConnections_KeepFirst(
                [children |-> [ch EXCEPT ![parent] = Append(@, child)],
                 parents |-> h.parents @@ (child :> parent)],
                Tail(conns))

\* Lines 199-205: every connection appends its target to the children of its
\* source and records its source as the target's parent.
RECURSIVE AddConnections(_, _)
AddConnections(h, conns) ==
    IF conns = <<>> THEN h
    ELSE LET parent == conns[1].from
             child == conns[1].to
             ch == IF parent \in DOMAIN h.children THEN h.children
                   ELSE h.children @@ (parent :> <<>>)
         IN AddConnections(
                [children |-> [ch EXCEPT ![parent] = Append(@, child)],
                 parents |-> (child :> parent) @@ h.parents],
                Tail(conns))

\* Lines 210-216: one conditional's to_list.
RECURSIVE AddBranches(_, _, _)
AddBranches(h, parent, to_list) ==
    IF to_list = <<>> THEN h
    ELSE LET child == to_list[1]
             ch == IF parent \in DOMAIN h.children THEN h.children
                   ELSE h.children @@ (parent :> <<>>)
         IN AddBranches(
                [children |-> IF InSeq(child, ch[parent]) THEN ch
                              ELSE [ch EXCEPT ![parent] = Append(@, child)],
                 parents |-> IF child \in DOMAIN h.parents THEN h.parents
                             ELSE h.parents @@ (child :> parent)],
                parent, Tail(to_list))

\* Lines 208-216.
RECURSIVE AddConditionals(_, _)
AddConditionals(h, conds) ==
    IF conds = <<>> THEN h
    ELSE AddConditionals(AddBranches(h, conds[1].from, conds[1].to_list),
                         Tail(conds))

\* Lines 196-216.
BuildHierarchy(conns, conds) ==
    AddConditionals(AddConnections([children |-> <<>>, parents |-> <<>>], conns),
                    conds)

\* Line 219.
Roots(mods, par) == SelectSeq(Keys(mods), LAMBDA id : id \notin DOMAIN par)

\* SetPosition with every module put on the top row.
SetPosition_TopRow(st, id, px, y_level) ==
    [st EXCEPT
       !.mods = [i \in 1..Len(st.mods) |->
                   IF st.mods[i].id = id
                   THEN [st.mods[i] EXCEPT
                           !.x = px, !.y = 0, !.level = y_level, !.placed = TRUE]
                   ELSE st.mods[i]],
       !.writes = [@ EXCEPT ![id] = @ + 1]]

\* Lines 257-259.
SetPosition(st, id, px, y_level) ==
    [st EXCEPT
       !.mods = [i \in 1..Len(st.mods) |->
                   IF st.mods[i].id = id
                   THEN [st.mods[i] EXCEPT
                           !.x = px,
                           !.y = y_level * (MODULE_HEIGHT + MODULE_SPACING_Y),
                           !.level = y_level,
                           !.placed = TRUE]
                   ELSE st.mods[i]],
       !.writes = [@ EXCEPT ![id] = @ + 1]]

RECURSIVE _position_tree(_, _, _, _, _)
RECURSIVE PositionEach(_, _, _, _, _)

\* The for loop of lines 231-259 over the ids still to visit.  The sums
\* halved at line 249 are even: every cursor value is a multiple of 160.
PositionEach(st, module_ids, ch, current_x, y_level) ==
    IF module_ids = <<>> \/ st.overflow THEN [st |-> st, ret |-> current_x]
    ELSE LET module_id == module_ids[1]
             child_ids == ChildrenOf(ch, module_id)
         IN IF ~HasKey(st.mods, module_id)
            THEN PositionEach(st, Tail(module_ids), ch, current_x, y_level)
            ELSE IF child_ids # <<>>
            THEN LET r == _position_tree(st, child_ids, ch, current_x, y_level + 1)
                     parent_x == (current_x + r.ret - MODULE_WIDTH) \div 2
                 IN IF r.st.overflow THEN r
                    ELSE PositionEach(SetPosition(r.st, module_id, parent_x, y_level),
                                      Tail(module_ids), ch, r.ret, y_level)
            ELSE PositionEach(SetPosition(st, module_id, current_x, y_level),
                              Tail(module_ids), ch,
                              current_x + MODULE_WIDTH + MODULE_SPACING_X, y_level)

\* Lines 224-261.  A call nested deeper than the interpreter's recursion
\* limit raises RecursionError, which unwinds every frame (overflow).
_position_tree(st, module_ids, ch, x_offset, y_level) ==
    IF y_level > RecursionLimit
    THEN [st |-> [st EXCEPT !.overflow = TRUE], ret |-> x_offset]
    ELSE IF module_ids = <<>> THEN [st |-> st, ret |-> x_offset]
    ELSE PositionEach(st, module_ids, ch, x_offset, y_level)

\* Lines 193-222: the layout of a parsed diagram.
_calculate_positions(mods, conns, conds) ==
    LET h == BuildHierarchy(conns, conds)
        st0 == [mods |-> mods, overflow |-> FALSE,
                writes |-> [id \in {mods[i].id : i \in 1..Len(mods)} |-> 0]]
        r == _position_tree(st0, Roots(mods, h.parents), h.children, 0, 0)
    IN [children |-> h.children, parents |-> h.parents, mods |-> r.st.mods,
        writes |-> r.st.writes, overflow |-> r.st.overflow]

(***************************************************************************)
(* generate_svg and the _draw_* methods: lines 263-668                     *)
(***************************************************************************)
max_chars == 16

RECURSIVE JoinWords(_)
JoinWords(ws) ==
    IF ws = <<>> THEN ""
    ELSE IF Len(ws) = 1 THEN ws[1]
    ELSE ws[1] \o " " \o JoinWords(Tail(ws))

\* WrapLabel that puts the whole label on one line.
WrapLabel_OneLine(words, current_line, lines) ==
    IF words = <<>> THEN <<>> ELSE <<words>>

\* Lines 272-285: the label's words, greedily packed into lines.
RECURSIVE WrapLabel(_, _, _)
WrapLabel(words, current_line, lines) ==
    IF words = <<>>
    THEN IF current_line # <<>> THEN Append(lines, current_line) ELSE lines
    ELSE LET test_line == JoinWords(Append(current_line, words[1]))
         IN IF Len(test_line) > max_chars /\ current_line # <<>>
            THEN WrapLabel(Tail(words), <<words[1]>>, Append(lines, current_line))
            ELSE WrapLabel(Tail(words), Append(current_line, words[1]), lines)

\* Lines 263-315.
_draw_module(module) ==
    [cls |-> "module", id |-> module.id, x |-> module.x, y |-> module.y,
     type |-> module.type, lines |-> WrapLabel(module.label, <<>>, <<>>)]

\* int(offset_multiplier), line 356, of the offset kept doubled.
IntOfHalves(o2) == IF o2 >= 0 THEN o2 \div 2 ELSE -((-o2) \div 2)

\* Lines 355-357: min(int(offset_multiplier), 3), then the list subscript,
\* which counts a negative index from the end and raises beyond the list.
PositionIndex(o2) ==
    LET i == IntOfHalves(o2)
        n == Len(line_positions)
    IN IF i > n - 1 THEN n - 1 ELSE i

Subscript(i) == IF i < 0 THEN i + Len(line_positions) ELSE i

\* Lines 317-448.  o2 is twice offset_multiplier.  Returns the groups drawn
\* (none when an endpoint is no module) and the exception raised, if any.
_draw_connection(mods, conn, o2) ==
    IF ~HasKey(mods, conn.from) \/ ~HasKey(mods, conn.to)
    THEN [exc |-> "none", groups |-> <<>>]
    ELSE LET f == Lookup(mods, conn.from)
             t == Lookup(mods, conn.to)
             ind == conn.type \in {"data", "control"}
             k == Subscript(PositionIndex(o2))
         IN IF ind /\ k \notin 0..(Len(line_positions) - 1)
            THEN [exc |-> "IndexError", groups |-> <<>>]
            ELSE [exc |-> "none", groups |->
                   <<[cls |-> "connection", from |-> conn.from, to |-> conn.to,
                      type |-> conn.type, direction |-> conn.direction,
                      label |-> conn.label,
                      x1 |-> f.x + MODULE_WIDTH \div 2, y1 |-> f.y + MODULE_HEIGHT,
                      x2 |-> t.x + MODULE_WIDTH \div 2, y2 |-> t.y,
                      indicator |-> IF ind THEN line_positions[k + 1] ELSE 0]>>]

Min(S) == CHOOSE v \in S : \A u \in S : v <= u
Max(S) == CHOOSE v \in S : \A u \in S : v >= u

\* _draw_loop with the arc always beneath the first covered module.
_draw_loop_FirstCovered(mods, conns, module_ids) ==
    LET covered == SelectSeq(module_ids, LAMBDA id : HasKey(mods, id))
    IN IF covered = <<>> THEN <<>>
       ELSE <<[cls |-> "loop", parent |-> covered[1],
               cx |-> Lookup(mods, covered[1]).x + MODULE_WIDTH \div 2,
               cy |-> Lookup(mods, covered[1]).y + MODULE_HEIGHT + 25 + 10]>>

\* Lines 450-510.
_draw_loop(mods, conns, module_ids) ==
    LET covered == SelectSeq(module_ids, LAMBDA id : HasKey(mods, id))
        cand == {i \in 1..Len(conns) :
                   /\ InSeq(conns[i].to, module_ids)
                   /\ ~InSeq(conns[i].from, module_ids)
                   /\ HasKey(mods, conns[i].from)}
        loop_level == Min({Lookup(mods, covered[i]).level : i \in 1..Len(covered)})
        above == {i \in 1..Len(mods) : mods[i].level = loop_level - 1}
        parent_module ==
            IF cand # {} THEN Lookup(mods, conns[Min(cand)].from)
            ELSE IF loop_level > 0 /\ above # {} THEN mods[Min(above)]
            ELSE Lookup(mods, covered[1])
    IN IF covered = <<>> THEN <<>>
       ELSE <<[cls |-> "loop", parent |-> parent_module.id,
               cx |-> parent_module.x + MODULE_WIDTH \div 2,
               cy |-> parent_module.y + MODULE_HEIGHT + 25 + 10]>>

\* max(self.levels.keys()) if self.levels else 0, lines 515 and 610.
MaxLevel(lv) == IF DOMAIN lv = {} THEN 0 ELSE Max(DOMAIN lv)

\* Lines 512-540.
_draw_storage(storage, position, lv) ==
    [cls |-> "storage", id |-> storage.id, label |-> storage.label,
     x |-> -(MODULE_WIDTH \div 2) + position * (MODULE_WIDTH + MODULE_SPACING_X),
     y |-> (MaxLevel(lv) + 1) * (MODULE_HEIGHT + MODULE_SPACING_Y)]

\* _draw_conditional with an arrow for every to-list entry, declared or not.
_draw_conditional_EveryEntry(mods, conditional) ==
    IF ~HasKey(mods, conditional.from) THEN <<>>
    ELSE LET f == Lookup(mods, conditional.from)
         IN <<[cls |-> "conditional", from |-> conditional.from,
               diamond_x |-> f.x + MODULE_WIDTH \div 2,
               diamond_y |-> f.y + MODULE_HEIGHT + 30,
               arrows |-> conditional.to_list]>>

\* Lines 542-589.
_draw_conditional(mods, conditional) ==
    IF ~HasKey(mods, conditional.from) THEN <<>>
    ELSE LET f == Lookup(mods, conditional.from)
         IN <<[cls |-> "conditional", from |-> conditional.from,
               diamond_x |-> f.x + MODULE_WIDTH \div 2,
               diamond_y |-> f.y + MODULE_HEIGHT + 30,
               arrows |-> SelectSeq(conditional.to_list,
                                    LAMBDA id : HasKey(mods, id))]>>

RECURSIVE DrawLoops(_, _, _)
DrawLoops(mods, conns, ls) ==
    IF ls = <<>> THEN <<>>
    ELSE _draw_loop(mods, conns, ls[1]) \o DrawLoops(mods, conns, Tail(ls))

RECURSIVE DrawConditionals(_, _)
DrawConditionals(mods, conds) ==
    IF conds = <<>> THEN <<>>
    ELSE _draw_conditional(mods, conds[1]) \o DrawConditionals(mods, Tail(conds))

\* Lines 639-644: the (from, to) pairs in the order they first occur, each
\* with the indices of its connections in declaration order.
SameKey(c, d) == c.from = d.from /\ c.to = d.to
GroupKeys(conns) ==
    SelectSeq([i \in 1..Len(conns) |-> i],
              LAMBDA i : \A j \in 1..(i - 1) : ~SameKey(conns[j], conns[i]))
GroupOf(conns, i) ==
    SelectSeq([j \in 1..Len(conns) |-> j], LAMBDA j : SameKey(conns[j], conns[i]))

\* Lines 651-655, doubled: 0 for a single connection, else idx - (n-1)/2.
OffsetTwice(idx, num_conns) == IF num_conns = 1 THEN 0 ELSE 2 * idx - (num_conns - 1)

\* Lines 649-657: one group's connections from the idx-th (0-based) on.
RECURSIVE DrawGroup(_, _, _, _)
DrawGroup(mods, conns, g, idx) ==
    IF idx >= Len(g) THEN [exc |-> "none", groups |-> <<>>]
    ELSE LET d == _draw_connection(mods, conns[g[idx + 1]], OffsetTwice(idx, Len(g)))
         IN IF d.exc # "none" THEN d
            ELSE LET r == DrawGroup(mods, conns, g, idx + 1)
                 IN [exc |-> r.exc, groups |-> d.groups \o r.groups]

\* Lines 647-657.
RECURSIVE DrawConnections(_, _, _)
DrawConnections(mods, conns, keys) ==
    IF keys = <<>> THEN [exc |-> "none", groups |-> <<>>]
    ELSE LET d == DrawGroup(mods, conns, GroupOf(conns, keys[1]), 0)
         IN IF d.exc # "none" THEN d
            ELSE LET r == DrawConnections(mods, conns, Tail(keys))
                 IN [exc |-> r.exc, groups |-> d.groups \o r.groups]

\* Lines 660-661.
DrawModules(mods) == [i \in 1..Len(mods) |-> _draw_module(mods[i])]

\* Lines 664-665.
DrawStorages(sts, lv) == [i \in 1..Len(sts) |-> _draw_storage(sts[i], i - 1, lv)]

NoSvg == [kind |-> "none", class |-> "", viewBox |-> <<0, 0, 0, 0>>,
          defs |-> <<>>, groups |-> <<>>]

\* A placeholder dressed as a chart: root class, viewBox and both markers.
Placeholder_AsChart ==
    [kind |-> "placeholder", class |-> "structure-chart",
     viewBox |-> <<0, 0, 200, 100>>, defs |-> <<"arrowhead", "small-arrowhead">>,
     groups |-> <<"No modules defined">>]

\* Line 597: <svg xmlns=... width="200" height="100"> with one text node;
\* the root has no class and no viewBox, and there is no defs block.
Placeholder == [kind |-> "placeholder", class |-> "", viewBox |-> <<0, 0, 0, 0>>,
                defs |-> <<>>, groups |-> <<"No modules defined">>]

\* Lines 599-618.
ViewBox(mods, sts, lv) ==
    LET all_x == {mods[i].x : i \in 1..Len(mods)}
        all_y == {mods[i].y : i \in 1..Len(mods)}
        min_x == Min(all_x) - 50
        max_x == Max(all_x) + MODULE_WIDTH + 50
        min_y == Min(all_y) - 80
        max_y == IF sts # <<>>
                 THEN (MaxLevel(lv) + 1) * (MODULE_HEIGHT + MODULE_SPACING_Y)
                      + MODULE_HEIGHT + 50
                 ELSE Max(all_y) + MODULE_HEIGHT + 50
    IN <<min_x, min_y, max_x - min_x, max_y - min_y>>

\* The groups with the modules drawn before the connections.
SvgGroups_ModulesFirst(loopG, condG, connG, modG, stoG) ==
    loopG \o condG \o modG \o connG \o stoG

\* Lines 630-665: the order in which the groups are appended to the markup.
SvgGroups(loopG, condG, connG, modG, stoG) ==
    loopG \o condG \o connG \o modG \o stoG

\* Lines 599-668, for a non-empty modules dict.  Reading the x of a module
\* the layout never reached raises KeyError (line 600).
RenderChart(mods, conns, conds, ls, sts, lv) ==
    IF \E i \in 1..Len(mods) : ~mods[i].placed
    THEN [exc |-> "KeyError", svg |-> NoSvg]
    ELSE LET cs == DrawConnections(mods, conns, GroupKeys(conns))
         IN IF cs.exc # "none" THEN [exc |-> cs.exc, svg |-> NoSvg]
            ELSE [exc |-> "none", svg |->
                   [kind |-> "chart", class |-> "structure-chart",
                    viewBox |-> ViewBox(mods, sts, lv),
                    defs |-> <<"arrowhead", "small-arrowhead">>,
                    groups |-> SvgGroups(DrawLoops(mods, conns, ls),
                                         DrawConditionals(mods, conds),
                                         cs.groups,
                                         DrawModules(mods),
                                         DrawStorages(sts, lv))]]

\* generate_svg without lines 596-597: min() of the empty coordinate list
\* raises ValueError (line 602).
Render_NoGuard(mods, conns, conds, ls, sts, lv) ==
    IF mods = <<>> THEN [exc |-> "ValueError", svg |-> NoSvg]
    ELSE RenderChart(mods, conns, conds, ls, sts, lv)

\* Lines 596-668, after parse() and _calculate_positions().
Render(mods, conns, conds, ls, sts, lv) ==
    IF mods = <<>> THEN [exc |-> "none", svg |-> Placeholder]
    ELSE RenderChart(mods, conns, conds, ls, sts, lv)

(***************************************************************************)
(* The DSL texts compiled                                                  *)
(***************************************************************************)
ModA == Line(0, <<W("module"), W("a"), Q("A")>>)
ModB == Line(2, <<W("module"), W("b"), Q("B")>>)
LibA == Line(2, <<W("library"), W("a"), QL("Lib"), QR("A")>>)
Conn(f, t) == Line(0, <<W(f), W("->"), W(t)>>)
Sto == Line(4, <<W("storage"), W("s"), Q("S")>>)
Loop == Line(2, <<W("loop"), W("over"), W("a"), W("b")>>)

Lines ==
    { ModA, ModB, LibA,
      Conn("a", "b"), Conn("b", "b"), Conn("a", "z"), Conn("z", "b"),
      Line(0, <<W("conditional"), W("a"), W("b"), W("z")>>),
      Line(0, <<W("conditional"), W("b"), W("a"), W("b")>>) }

FanLines ==
    { Line(0, <<W("a"), W("->"), W("b"), W("data"), Q("x")>>),
      Line(0, <<W("a"), W("->"), W("b"), W("control"), W("backward")>>) }

SeqsUpTo(S, n) == UNION {[1..k -> S] : k \in 0..n}

(***************************************************************************)
(* The compile call: StructureChartGenerator(text).generate_svg()          *)
(***************************************************************************)

\* __init__, lines 44-50.
Construct(text) ==
    /\ chart_def = text
    /\ pc = "constructed"
    /\ modules = <<>>
    /\ connections = <<>>
    /\ conditionals = <<>>
    /\ loops = <<>>
    /\ storages = <<>>
    /\ levels = <<>>
    /\ children = <<>>
    /\ parents = <<>>
    /\ writes = <<>>
    /\ svg = NoSvg
    /\ exc = "none"

\* No document is being preprocessed.
NoRun ==
    /\ run_lines = <<>>
    /\ run_i = 0
    /\ in_structure_chart = FALSE
    /\ chart_lines = <<>>
    /\ new_lines = <<>>
    /\ run_pc = "idle"
    /\ compiled = <<>>

Init == \E text \in SeqsUpTo(Lines, MaxLines) : Construct(text) /\ NoRun

InitFan ==
    \E fan \in SeqsUpTo(FanLines, MaxFan) : Construct(<<ModA, ModB>> \o fan) /\ NoRun

\* Line 593: self.parse().
Parse ==
    /\ pc = "constructed"
    /\ LET ps == parse(chart_def)
       IN /\ modules' = ps.modules
          /\ connections' = ps.connections
          /\ conditionals' = ps.conditionals
          /\ loops' = ps.loops
          /\ storages' = ps.storages
          /\ levels' = ps.levels
          /\ exc' = ps.exc
          /\ pc' = IF ps.exc = "none" THEN "parsed" ELSE "raised"
    /\ UNCHANGED <<chart_def, children, parents, writes, svg>>
    /\ UNCHANGED run_vars

\* Line 594: self._calculate_positions().
CalculatePositions ==
    /\ pc = "parsed"
    /\ LET r == _calculate_positions(modules, connections, conditionals)
       IN /\ children' = r.children
          /\ parents' = r.parents
          /\ modules' = r.mods
          /\ writes' = r.writes
          /\ exc' = IF r.overflow THEN "RecursionError" ELSE "none"
          /\ pc' = IF r.overflow THEN "raised" ELSE "positioned"
    /\ UNCHANGED <<chart_def, connections, conditionals, loops, storages, levels, svg>>
    /\ UNCHANGED run_vars

\* Lines 596-668: the markup is built and returned.
GenerateSvg ==
    /\ pc = "positioned"
    /\ LET r == Render(modules, connections, conditionals, loops, storages, levels)
       IN /\ svg' = r.svg
          /\ exc' = r.exc
          /\ pc' = IF r.exc = "none" THEN "returned" ELSE "raised"
    /\ UNCHANGED <<chart_def, modules, connections, conditionals, loops, storages,
                   levels, children, parents, writes>>
    /\ UNCHANGED run_vars

Next == Parse \/ CalculatePositions \/ GenerateSvg

Spec == Init /\ [][Next]_vars

SpecFan == InitFan /\ [][Next]_vars

\* Two modules, the second indented or not, and after them connections,
\* conditionals, loops and storages.
ModB0 == Line(0, <<W("module"), W("b"), Q("B")>>)

RenderLines ==
    { Conn("a", "b"), Loop, Sto,
      Line(0, <<W("conditional"), W("a"), W("b"), W("z")>>) }

InitRender ==
    \E b \in {ModB, ModB0} : \E extra \in SeqsUpTo(RenderLines, MaxExtra) :
        Construct(<<ModA, b>> \o extra) /\ NoRun

SpecRender == InitRender /\ [][Next]_vars

\* Three modules and acyclic edges among them, some to an undeclared id.
ModC == Line(4, <<W("module"), W("c"), Q("C")>>)

ForestLines ==
    { Conn("a", "b"), Conn("a", "c"), Conn("b", "c"), Conn("a", "z"), Conn("b", "z"),
      Line(0, <<W("conditional"), W("a"), W("b"), W("c")>>) }

InitForest ==
    \E edges \in SeqsUpTo(ForestLines, MaxEdges) :
        Construct(<<ModA, ModB, ModC>> \o edges) /\ NoRun

SpecForest == InitForest /\ [][Next]_vars

\* Three modules, loops over two of them, and edges into the covered ones.
LoopLines ==
    { Line(0, <<W("loop"), W("over"), W("b"), W("c")>>), Loop,
      Conn("a", "b"), Conn("z", "b"), Conn("b", "c"),
      Line(0, <<W("conditional"), W("a"), W("b"), W("c")>>) }

InitLoop ==
    \E rest \in SeqsUpTo(LoopLines, MaxEdges) :
        Construct(<<ModA, ModB, ModC>> \o rest) /\ NoRun

SpecLoop == InitLoop /\ [][Next]_vars

\* One module whose label has up to MaxWords words of 1, 7, 8 and 17
\* characters: 8 + 1 + 7 characters fill a line, 8 + 1 + 8 do not fit.
LabelWords == {"a", "abcdefg", "abcdefgh", "abcdefghijklmnopq"}

\* The words of a quoted label as the words of the line.
LabelToks(ws) ==
    IF Len(ws) = 1 THEN <<Q(ws[1])>>
    ELSE [i \in 1..Len(ws) |->
            IF i = 1 THEN QL(ws[i]) ELSE IF i = Len(ws) THEN QR(ws[i]) ELSE W(ws[i])]

InitWrap ==
    \E ws \in SeqsUpTo(LabelWords, MaxWords) :
        /\ ws # <<>>
        /\ Construct(<<Line(0, <<W("module"), W("a")>> \o LabelToks(ws))>>)
        /\ NoRun

SpecWrap == InitWrap /\ [][Next]_vars

\* A connection line 'a -> b data t2 t3 ...' between two declared modules.
TailWords == {W("forward"), W("backward"), Q("x"), QL("u"), QR("v")}

ConnHead == <<W("a"), W("->"), W("b"), W("data")>>

InitConn ==
    \E tail \in SeqsUpTo(TailWords, MaxTail) :
        Construct(<<ModA, ModB, Line(0, ConnHead \o tail)>>) /\ NoRun

SpecConn == InitConn /\ [][Next]_vars

\* Texts of every kind of line the parser knows, a malformed connection and
\* at most one module among them.

BareLines ==
    { Line(0, <<>>), Line(0, <<W("#"), W("x")>>), Sto, Loop, Conn("a", "b"),
      Line(0, <<W("conditional"), W("a"), W("b"), W("z")>>),
      Line(0, <<W("a"), W("->")>>), ModA }

InitBare == \E text \in SeqsUpTo(BareLines, MaxLines) : Construct(text) /\ NoRun

SpecBare == InitBare /\ [][Next]_vars

(***************************************************************************)
(* StructureChartPreprocessor.run: lines 674-720                           *)
(***************************************************************************)

\* The two fence lines, lines 683 and 689, and a line of running text.
\* "[fence]" stands for the three backquotes of a fence.
Open == Line(0, <<W("[fence]structure-chart")>>)
Close == Line(0, <<W("[fence]")>>)
Prose == Line(0, <<W("prose")>>)
IsOpen(l) == Texts(l.toks) = <<"[fence]structure-chart">>
IsClose(l) == Texts(l.toks) = <<"[fence]">>

\* hashlib.md5(chart_def.encode()).hexdigest()[:8], line 696: a value fixed
\* by the text alone.  The digest is taken to tell the texts of a document
\* apart (no collision among them).
DiagramId(text) == <<"md5", text>>

\* What run() appends to new_lines.
Out(kind, line, id, markup) == [kind |-> kind, line |-> line, id |-> id, svg |-> markup]
PassedLine(l) == Out("line", l, <<>>, NoSvg)

\* Lines 699-703.
Container(id, markup) ==
    << Out("div", Line(0, <<>>), id, NoSvg),
       Out("svg", Line(0, <<>>), <<>>, markup),
       Out("button", Line(0, <<>>), id, NoSvg),
       Out("enddiv", Line(0, <<>>), <<>>, NoSvg),
       PassedLine(Line(0, <<>>)) >>

\* Lines 682-687.
RunFenceStart ==
    /\ run_pc = "running"
    /\ run_i < Len(run_lines)
    /\ IsOpen(run_lines[run_i + 1])
    /\ in_structure_chart' = TRUE
    /\ chart_lines' = <<>>
    /\ run_i' = run_i + 1
    /\ UNCHANGED <<run_lines, new_lines, run_pc, compiled>>
    /\ UNCHANGED gen_vars

\* Lines 689-692: the closing fence of a block; the generator for the
\* block's text is created (__init__, lines 37-50).
RunFenceEnd ==
    /\ run_pc = "running"
    /\ run_i < Len(run_lines)
    /\ ~IsOpen(run_lines[run_i + 1])
    /\ in_structure_chart /\ IsClose(run_lines[run_i + 1])
    /\ chart_def' = chart_lines
    /\ pc' = "constructed"
    /\ modules' = EmptyParse.modules
    /\ connections' = EmptyParse.connections
    /\ conditionals' = EmptyParse.conditionals
    /\ loops' = EmptyParse.loops
    /\ storages' = EmptyParse.storages
    /\ levels' = EmptyParse.levels
    /\ children' = <<>>
    /\ parents' = <<>>
    /\ writes' = <<>>
    /\ svg' = NoSvg
    /\ exc' = "none"
    /\ run_pc' = "compiling"
    /\ UNCHANGED <<run_lines, run_i, in_structure_chart, chart_lines, new_lines,
                   compiled>>

\* Lines 693-709: generate_svg() has ended (Parse, CalculatePositions and
\* GenerateSvg are its steps).  Its markup is wrapped in the container and
\* appended; an exception it raised leaves run().
RunCompiled ==
    /\ run_pc = "compiling"
    /\ pc \in {"returned", "raised"}
    /\ LET diagram_id == DiagramId(chart_def)
           done == pc = "returned"
       IN /\ new_lines' = IF done THEN new_lines \o Container(diagram_id, svg)
                          ELSE new_lines
          /\ compiled' = IF done
                         THEN Append(compiled, [text |-> chart_def, svg |-> svg,
                                                id |-> diagram_id])
                         ELSE compiled
          /\ in_structure_chart' = IF done THEN FALSE ELSE in_structure_chart
          /\ chart_lines' = IF done THEN <<>> ELSE chart_lines
          /\ run_i' = IF done THEN run_i + 1 ELSE run_i
          /\ run_pc' = IF done THEN "running" ELSE "raised"
    /\ UNCHANGED run_lines
    /\ UNCHANGED gen_vars

\* Lines 711-717.
RunLine ==
    /\ run_pc = "running"
    /\ run_i < Len(run_lines)
    /\ ~IsOpen(run_lines[run_i + 1])
    /\ ~(in_structure_chart /\ IsClose(run_lines[run_i + 1]))
    /\ chart_lines' = IF in_structure_chart
                      THEN Append(chart_lines, run_lines[run_i + 1])
                      ELSE chart_lines
    /\ new_lines' = IF in_structure_chart THEN new_lines
                    ELSE Append(new_lines, PassedLine(run_lines[run_i + 1]))
    /\ run_i' = run_i + 1
    /\ UNCHANGED <<run_lines, in_structure_chart, run_pc, compiled>>
    /\ UNCHANGED gen_vars

\* Lines 682 and 719: the loop ends and new_lines is returned.
RunReturn ==
    /\ run_pc = "running"
    /\ run_i >= Len(run_lines)
    /\ run_pc' = "returned"
    /\ UNCHANGED <<run_lines, run_i, in_structure_chart, chart_lines, new_lines,
                   compiled>>
    /\ UNCHANGED gen_vars

\* The documents preprocessed: up to MaxItems items, an item being a fenced
\* block, a lone fence line or a line of running text.
BlockTexts ==
    { <<>>, <<ModA, Sto>>, <<ModA, ModB, Conn("a", "b")>>, <<ModB, Conn("b", "b")>> }

Items ==
    {<<Prose>>, <<Open>>, <<Close>>}
        \cup {<<Open>> \o t \o <<Close>> : t \in BlockTexts}

RECURSIVE Flatten(_)
Flatten(ss) == IF ss = <<>> THEN <<>> ELSE ss[1] \o Flatten(Tail(ss))

\* No generator has been created yet.
NoGenerator ==
    /\ chart_def = <<>>
    /\ pc = "none"
    /\ modules = <<>>
    /\ connections = <<>>
    /\ conditionals = <<>>
    /\ loops = <<>>
    /\ storages = <<>>
    /\ levels = <<>>
    /\ children = <<>>
    /\ parents = <<>>
    /\ writes = <<>>
    /\ svg = NoSvg
    /\ exc = "none"

\* run(lines) is entered, lines 677-681.
InitDoc ==
    \E items \in SeqsUpTo(Items, MaxItems) :
        /\ NoGenerator
        /\ run_lines = Flatten(items)
        /\ run_i = 0
        /\ in_structure_chart = FALSE
        /\ chart_lines = <<>>
        /\ new_lines = <<>>
        /\ run_pc = "running"
        /\ compiled = <<>>

NextDoc ==
    \/ RunFenceStart
    \/ RunFenceEnd
    \/ Parse
    \/ CalculatePositions
    \/ GenerateSvg
    \/ RunCompiled
    \/ RunLine
    \/ RunReturn

SpecDoc == InitDoc /\ [][NextDoc]_vars

(***************************************************************************)
(* What the text declares and references, read off the text itself         *)
(***************************************************************************)
IsDeclLine(l) ==
    /\ l.toks # <<>>
    /\ (StartsWith(l.toks, "module") \/ StartsWith(l.toks, "library"))
    /\ DeclMatch(l.toks).ok

DeclaredIds(text) == {text[i].toks[2].w : i \in {j \in 1..Len(text) : IsDeclLine(text[j])}}

\* The connection a line stands for when it is a connection line.
IsConnLine(l) ==
    /\ ParseLine(EmptyParse, l).exc = "none"
    /\ Len(ParseLine(EmptyParse, l).connections) = 1
ConnOfLine(l) == ParseLine(EmptyParse, l).connections[1]

RemoveAt(s, k) == SubSeq(s, 1, k - 1) \o SubSeq(s, k + 1, Len(s))

\* The layout generate_svg computes for a text.
LayoutOf(text) ==
    LET ps == parse(text)
    IN _calculate_positions(ps.modules, ps.connections, ps.conditionals)

ModuleGroups == SelectSeq(svg.groups, LAMBDA g : g.cls = "module")
ConnectionGroups == SelectSeq(svg.groups, LAMBDA g : g.cls = "connection")

LaidOut == pc \in {"positioned", "returned"}

(***************************************************************************)
(* C1: for every input text, generate_svg returns markup and lets no       *)
(* exception propagate.                                                    *)
(***************************************************************************)
C1_NoExceptionPropagates == pc # "raised" /\ exc = "none"

(***************************************************************************)
(* C2: the recursive layout reaches completion for every set of modules,   *)
(* connections and conditionals, also when the edges form a cycle among    *)
(* modules reachable from a root: _position_tree never nests without end.  *)
(***************************************************************************)
C2_LayoutCompletes == exc # "RecursionError"

(***************************************************************************)
(* C3: a returned chart holds exactly one module group per distinct        *)
(* declared module/library id: one for an id declared more than once,      *)
(* none for an id that is only referenced.                                 *)
(***************************************************************************)
C3_OneGroupPerDeclaredId ==
    (pc = "returned" /\ svg.kind = "chart") =>
        /\ Len(ModuleGroups) = Cardinality(DeclaredIds(chart_def))
        /\ \A id \in DeclaredIds(chart_def) :
              Cardinality({i \in 1..Len(ModuleGroups) : ModuleGroups[i].id = id}) = 1

C3_Witness ==
    /\ pc = "returned" /\ svg.kind = "chart"
    /\ \E i, j \in 1..Len(chart_def) :
          /\ i < j /\ IsDeclLine(chart_def[i]) /\ IsDeclLine(chart_def[j])
          /\ chart_def[i].toks[2] = chart_def[j].toks[2]
    /\ \E i \in 1..Len(connections) : connections[i].to \notin DeclaredIds(chart_def)

(***************************************************************************)
(* C4: after layout, any two distinct sibling modules at the same tree     *)
(* depth (children of the same parent, or two roots) have disjoint         *)
(* x-ranges [x, x+120).                                                    *)
(***************************************************************************)
Siblings(m, n) ==
    \/ m.id \notin DOMAIN parents /\ n.id \notin DOMAIN parents
    \/ \E p \in DOMAIN children : InSeq(m.id, children[p]) /\ InSeq(n.id, children[p])

C4_SiblingsDisjoint ==
    LaidOut =>
        \A i, j \in 1..Len(modules) :
            (/\ i # j
             /\ modules[i].placed /\ modules[j].placed
             /\ modules[i].level = modules[j].level
             /\ Siblings(modules[i], modules[j]))
            => (\/ modules[i].x + MODULE_WIDTH <= modules[j].x
                \/ modules[j].x + MODULE_WIDTH <= modules[i].x)

(***************************************************************************)
(* C5: a connection that references an undeclared module id produces no    *)
(* connector and does not alter module layout: every declared module gets  *)
(* the same x, y as for the same text with that connection line removed.   *)
(***************************************************************************)
IsDanglingLine(l) ==
    /\ IsConnLine(l)
    /\ (\/ ConnOfLine(l).from \notin DeclaredIds(chart_def)
        \/ ConnOfLine(l).to \notin DeclaredIds(chart_def))

SameLayout(mods, other) ==
    /\ Len(mods) = Len(other)
    /\ \A i \in 1..Len(mods) :
          /\ mods[i].id = other[i].id
          /\ mods[i].placed = other[i].placed
          /\ mods[i].x = other[i].x
          /\ mods[i].y = other[i].y

C5_DanglingConnectionNoEffect ==
    /\ LaidOut =>
          \A k \in 1..Len(chart_def) :
              IsDanglingLine(chart_def[k]) =>
                  LET r == LayoutOf(RemoveAt(chart_def, k))
                  IN ~r.overflow /\ SameLayout(modules, r.mods)
    /\ pc = "returned" =>
          \A i \in 1..Len(ConnectionGroups) :
              /\ ConnectionGroups[i].from \in DeclaredIds(chart_def)
              /\ ConnectionGroups[i].to \in DeclaredIds(chart_def)

(***************************************************************************)
(* C6: in the final layout every module with at least one declared child   *)
(* has x equal to the midpoint of its children's combined span (leftmost   *)
(* child's x to rightmost child's x + 120) minus 60.                       *)
(***************************************************************************)
DeclaredChildren(id) ==
    {i \in 1..Len(modules) : InSeq(modules[i].id, ChildrenOf(children, id))}

C6_ParentCentred ==
    LaidOut =>
        \A i \in 1..Len(modules) :
            LET kids == DeclaredChildren(modules[i].id)
                xs == {modules[k].x : k \in kids}
            IN (kids # {} /\ modules[i].placed /\ \A k \in kids : modules[k].placed)
               => 2 * (modules[i].x + MODULE_WIDTH \div 2)
                    = Min(xs) + Max(xs) + MODULE_WIDTH

(***************************************************************************)
(* C7: n parallel data/control connections between the same pair, with     *)
(* 2 <= n <= 4, get n pairwise distinct indicator positions of the table.  *)
(***************************************************************************)
C7_DistinctIndicators ==
    (pc = "returned" /\ Len(ConnectionGroups) \in 2..4) =>
        \A i, j \in 1..Len(ConnectionGroups) :
            (/\ i # j
             /\ SameKey(ConnectionGroups[i], ConnectionGroups[j])
             /\ ConnectionGroups[i].type \in {"data", "control"}
             /\ ConnectionGroups[j].type \in {"data", "control"})
            => ConnectionGroups[i].indicator # ConnectionGroups[j].indicator

(***************************************************************************)
(* C8: for n > 4 parallel data/control connections between the same pair,  *)
(* every one is drawn without an exception, and every connection whose     *)
(* computed slot falls outside the four-entry table is drawn at the last   *)
(* table entry (0.85).                                                     *)
(***************************************************************************)
ParallelCount == Cardinality({i \in 1..Len(connections) : SameKey(connections[i], connections[1])})

C8_FanSaturates ==
    (Len(connections) > 4 /\ ParallelCount = Len(connections)
       /\ pc \in {"returned", "raised"}) =>
        /\ pc = "returned"
        /\ Len(ConnectionGroups) = Len(connections)
        /\ \A i \in 1..Len(ConnectionGroups) :
              IntOfHalves(OffsetTwice(i - 1, Len(connections))) \notin 0..3
                  => ConnectionGroups[i].indicator = line_positions[4]

(***************************************************************************)
(* C9: during one compile call every declared module is given its x, y     *)
(* exactly once: none is left without coordinates when rendering starts    *)
(* and none is written a second time by the layout.                        *)
(***************************************************************************)
C9_AssignedExactlyOnce ==
    pc = "positioned" =>
        \A i \in 1..Len(modules) :
            modules[i].placed /\ writes[modules[i].id] = 1

(***************************************************************************)
(* C10 as claimed: the parent of a module targeted by at least one         *)
(* connection is the source of the FIRST such connection in declaration    *)
(* order; a module targeted only by conditionals gets the source of the    *)
(* first conditional that lists it.                                        *)
(***************************************************************************)
ConnsTo(id) == {i \in 1..Len(connections) : connections[i].to = id}
CondsTo(id) == {i \in 1..Len(conditionals) : InSeq(id, conditionals[i].to_list)}
Targets ==
    {connections[i].to : i \in 1..Len(connections)}
        \cup UNION {{conditionals[i].to_list[k] : k \in 1..Len(conditionals[i].to_list)}
                     : i \in 1..Len(conditionals)}

C10_FirstEdgeIsParent ==
    LaidOut =>
        \A id \in Targets \cap DeclaredIds(chart_def) :
            /\ id \in DOMAIN parents
            /\ parents[id] = IF ConnsTo(id) # {}
                             THEN connections[Min(ConnsTo(id))].from
                             ELSE conditionals[Min(CondsTo(id))].from

(***************************************************************************)
(* C10 as amended: the parent of a module targeted by at least one         *)
(* connection is the source of the LAST such connection in declaration     *)
(* order, and no conditional changes it; a module targeted only by         *)
(* conditionals gets the source of the first conditional that lists it.    *)
(***************************************************************************)
C10_LastConnectionIsParent ==
    LaidOut =>
        /\ DOMAIN parents = Targets
        /\ \A id \in Targets :
              parents[id] = IF ConnsTo(id) # {}
                            THEN connections[Max(ConnsTo(id))].from
                            ELSE conditionals[Min(CondsTo(id))].from

C10_Witness ==
    /\ LaidOut
    /\ \E id \in Targets \cap DeclaredIds(chart_def) :
          /\ Cardinality(ConnsTo(id)) >= 2
          /\ connections[Min(ConnsTo(id))].from # connections[Max(ConnsTo(id))].from
          /\ \E i \in CondsTo(id) :
                conditionals[i].from # connections[Max(ConnsTo(id))].from

(***************************************************************************)
(* C11: two compile calls on the same DSL text return identical SVG and    *)
(* the same diagram id, whichever other diagrams were compiled before or   *)
(* between them: no state carries over from one generator instance or one  *)
(* fenced block to the next.                                               *)
(***************************************************************************)
C11_SameTextSameOutput ==
    \A p, q \in 1..Len(compiled) :
        compiled[p].text = compiled[q].text
            => /\ compiled[p].svg = compiled[q].svg
               /\ compiled[p].id = compiled[q].id

C11_Witness ==
    /\ Len(compiled) = 3
    /\ compiled[1].text = compiled[3].text
    /\ compiled[1].text # compiled[2].text
    /\ compiled[1].svg.kind = "chart"
    /\ compiled[2].svg.kind = "chart"

(***************************************************************************)
(* C12 as claimed: every markup generate_svg returns, for every input, is   *)
(* an SVG element whose root carries class="structure-chart" and a viewBox *)
(* and that contains the defs block declaring both markers (arrowhead and  *)
(* small-arrowhead).                                                       *)
(***************************************************************************)
HasChartRoot(markup) ==
    /\ markup.class = "structure-chart"
    /\ markup.viewBox # NoSvg.viewBox
    /\ markup.defs = <<"arrowhead", "small-arrowhead">>

C12_EveryMarkupIsChart == pc = "returned" => HasChartRoot(svg)

(***************************************************************************)
(* C12 as amended: the markup returned for a text that declares at least   *)
(* one module or library has the root class, a viewBox and the defs block  *)
(* with both markers; the markup returned for a text that declares none is *)
(* the placeholder, whose root has no class and no viewBox and which has   *)
(* no defs block.                                                          *)
(***************************************************************************)
C12_ChartRootIffModules ==
    pc = "returned" =>
        IF DeclaredIds(chart_def) # {}
        THEN HasChartRoot(svg)
        ELSE /\ svg.kind = "placeholder"
             /\ svg.class = ""
             /\ svg.viewBox = NoSvg.viewBox
             /\ svg.defs = <<>>

C12_Witness ==
    /\ pc = "returned"
    /\ chart_def # <<>>
    /\ DeclaredIds(chart_def) = {}
    /\ svg.kind = "placeholder"

(***************************************************************************)
(* C13: when parsing yields no module or library declaration (empty text,  *)
(* only blank or comment lines, only storages, connections, conditionals   *)
(* and loops), generate_svg returns the fixed placeholder with the text    *)
(* "No modules defined" and does not fail.                                 *)
(***************************************************************************)
ParseCompletes == ~(pc = "raised" /\ exc = "IndexError")

C13_NoModulesPlaceholder ==
    (DeclaredIds(chart_def) = {} /\ ParseCompletes) =>
        /\ pc # "raised"
        /\ pc = "returned" =>
              /\ svg.kind = "placeholder"
              /\ svg.groups = <<"No modules defined">>

C13_Witness ==
    /\ pc = "returned"
    /\ svg.kind = "placeholder"
    /\ storages # <<>> /\ loops # <<>>
    /\ connections # <<>> /\ conditionals # <<>>

(***************************************************************************)
(* C14: a conditional whose source module is declared is drawn as one gate *)
(* (a diamond below the source with a line from the source to it) with     *)
(* exactly one arrow per to-list entry that names a declared module;       *)
(* entries naming undeclared ids yield no arrow and do not prevent the     *)
(* other arrows.                                                           *)
(***************************************************************************)
ConditionalGroups == SelectSeq(svg.groups, LAMBDA g : g.cls = "conditional")

\* The conditionals of the text whose source is declared, in text order.
DrawnConditionals ==
    SelectSeq(conditionals, LAMBDA c : c.from \in DeclaredIds(chart_def))

DeclaredEntries(to_list) ==
    SelectSeq(to_list, LAMBDA id : id \in DeclaredIds(chart_def))

C14_OneArrowPerDeclaredEntry ==
    (pc = "returned" /\ svg.kind = "chart") =>
        /\ Len(ConditionalGroups) = Len(DrawnConditionals)
        /\ \A i \in 1..Len(ConditionalGroups) :
              LET g == ConditionalGroups[i]
                  c == DrawnConditionals[i]
                  src == Lookup(modules, c.from)
              IN /\ g.from = c.from
                 /\ g.diamond_x = src.x + MODULE_WIDTH \div 2
                 /\ g.diamond_y > src.y + MODULE_HEIGHT
                 /\ g.arrows = DeclaredEntries(c.to_list)

C14_Witness ==
    /\ pc = "returned" /\ svg.kind = "chart"
    /\ \E i \in 1..Len(ConditionalGroups) :
          /\ ConditionalGroups[i].arrows # <<>>
          /\ Len(ConditionalGroups[i].arrows) < Len(DrawnConditionals[i].to_list)

(***************************************************************************)
(* C15: for a connection line 'from -> to kind t2 t3 ...': when t2 is      *)
(* forward or backward it is the direction and the label is all words      *)
(* after it; otherwise the direction is forward and the label is t2        *)
(* together with all words after it.  In both cases the label is the       *)
(* quote-stripped remainder, so a quoted multi-word label is kept whole.   *)
(***************************************************************************)
ConnTail == Drop(chart_def[Len(chart_def)].toks, Len(ConnHead))

C15_LabelIsRemainder ==
    (pc # "constructed" /\ Len(connections) = 1) =>
        LET t == ConnTail
            c == connections[1]
        IN IF t # <<>> /\ Text(t[1]) \in {"forward", "backward"}
           THEN c.direction = Text(t[1]) /\ c.label = StripQuotes(Drop(t, 1))
           ELSE c.direction = "forward" /\ c.label = StripQuotes(t)

(***************************************************************************)
(* C16: every storage is placed on one row whose y is exactly one row step *)
(* (130) below the largest y of any laid-out module, so that no storage    *)
(* box shares a row with, or lies above, a module box.                     *)
(***************************************************************************)
StorageGroups == SelectSeq(svg.groups, LAMBDA g : g.cls = "storage")
RowStep == MODULE_HEIGHT + MODULE_SPACING_Y
ModuleYs == {modules[i].y : i \in 1..Len(modules)}
ModuleXs == {modules[i].x : i \in 1..Len(modules)}

C16_StorageRowBelowModules ==
    (pc = "returned" /\ svg.kind = "chart") =>
        \A i \in 1..Len(StorageGroups) :
            StorageGroups[i].y = Max(ModuleYs) + RowStep

(***************************************************************************)
(* C17: for a non-empty diagram the viewBox is the rectangle               *)
(* [min x - 50, max x + 120 + 50] x [min y - 80, max y + 50 + 50] with     *)
(* min and max taken over the coordinates of all modules and all storages, *)
(* so every module box and every storage box lies inside it and its bottom *)
(* bound is never above the bottom of the deepest module row.              *)
(***************************************************************************)
BoxXs == ModuleXs \cup {StorageGroups[i].x : i \in 1..Len(StorageGroups)}
BoxYs == ModuleYs \cup {StorageGroups[i].y : i \in 1..Len(StorageGroups)}

C17_ViewBoxCoversBoxes ==
    (pc = "returned" /\ svg.kind = "chart") =>
        LET left == Min(BoxXs) - 50
            right == Max(BoxXs) + MODULE_WIDTH + 50
            top == Min(BoxYs) - 80
            bottom == Max(BoxYs) + MODULE_HEIGHT + 50
        IN svg.viewBox = <<left, top, right - left, bottom - top>>

(***************************************************************************)
(* C18: the output lists its groups in a fixed back-to-front order: every  *)
(* loop group precedes every conditional group, which precede every        *)
(* connection group, which precede every module group, which precede every *)
(* storage group.                                                          *)
(***************************************************************************)
Rank(cls) ==
    CASE cls = "loop" -> 1
      [] cls = "conditional" -> 2
      [] cls = "connection" -> 3
      [] cls = "module" -> 4
      [] cls = "storage" -> 5

C18_BackToFrontOrder ==
    (pc = "returned" /\ svg.kind = "chart") =>
        \A i, j \in 1..Len(svg.groups) :
            i < j => Rank(svg.groups[i].cls) <= Rank(svg.groups[j].cls)

C18_Witness ==
    /\ pc = "returned" /\ svg.kind = "chart"
    /\ \A k \in 1..5 : \E i \in 1..Len(svg.groups) : Rank(svg.groups[i].cls) = k

(***************************************************************************)
(* C19: the roots are exactly the declared modules that are the target of  *)
(* no connection and no conditional, and their sub-trees are placed side   *)
(* by side in declaration order: in the final layout the x coordinates of  *)
(* the roots are strictly increasing in the order the roots were declared. *)
(***************************************************************************)
UntargetedIds == SelectSeq(Keys(modules), LAMBDA id : id \notin Targets)

C19_RootsLeftToRight ==
    LaidOut =>
        /\ Roots(modules, parents) = UntargetedIds
        /\ \A i, j \in 1..Len(modules) :
              (/\ i < j
               /\ modules[i].id \notin Targets
               /\ modules[j].id \notin Targets)
              => modules[i].x < modules[j].x

(***************************************************************************)
(* C20: after layout every laid-out module has y = 130 * depth and         *)
(* level = depth, where depth is the number of parent links from the       *)
(* module up to its root (0 for a root), the parent being the one the      *)
(* hierarchy resolver recorded; in particular a child is exactly one row   *)
(* below its parent.                                                       *)
(***************************************************************************)
RECURSIVE LinksUp(_, _)
LinksUp(id, fuel) ==
    IF id \notin DOMAIN parents \/ fuel = 0 THEN 0
    ELSE 1 + LinksUp(parents[id], fuel - 1)

Depth(id) == LinksUp(id, Len(modules))

C20_RowIsDepth ==
    LaidOut =>
        \A i \in 1..Len(modules) :
            modules[i].placed =>
                /\ modules[i].y = RowStep * Depth(modules[i].id)
                /\ modules[i].level = Depth(modules[i].id)
                /\ (modules[i].id \in DOMAIN parents
                      /\ HasKey(modules, parents[modules[i].id]))
                   => modules[i].y = Lookup(modules, parents[modules[i].id]).y + RowStep

(***************************************************************************)
(* C21: for a well-formed forest (every connection/conditional endpoint is *)
(* a declared module, no id declared twice, every module the target of at  *)
(* most one edge, no cycle) no two distinct module boxes                   *)
(* [x, x+120) x [y, y+50) overlap in the final layout, across all roots    *)
(* and all depths.                                                         *)
(***************************************************************************)
DeclLines(text) == {i \in 1..Len(text) : IsDeclLine(text[i])}

\* The edges of the diagram: its connections and its conditionals' branches.
EdgesInto(id) ==
    Cardinality(ConnsTo(id))
        + Cardinality(UNION {{<<i, k>> : k \in {n \in 1..Len(conditionals[i].to_list) :
                                                  conditionals[i].to_list[n] = id}}
                              : i \in 1..Len(conditionals)})

EdgeSources ==
    {connections[i].from : i \in 1..Len(connections)}
        \cup {conditionals[i].from : i \in 1..Len(conditionals)}

EdgePairs ==
    {<<connections[i].from, connections[i].to>> : i \in 1..Len(connections)}
        \cup UNION {{<<conditionals[i].from, conditionals[i].to_list[k]>> :
                        k \in 1..Len(conditionals[i].to_list)}
                     : i \in 1..Len(conditionals)}

\* The ids reached from id over at least one edge, in at most n steps.
RECURSIVE Below(_, _)
Below(id, n) ==
    IF n = 0 THEN {}
    ELSE LET kids == {e[2] : e \in {d \in EdgePairs : d[1] = id}}
         IN kids \cup UNION {Below(k, n - 1) : k \in kids}

WellFormedForest ==
    /\ (EdgeSources \cup Targets) \subseteq DeclaredIds(chart_def)
    /\ Cardinality(DeclLines(chart_def)) = Cardinality(DeclaredIds(chart_def))
    /\ \A id \in DeclaredIds(chart_def) : EdgesInto(id) <= 1
    /\ \A id \in DeclaredIds(chart_def) : id \notin Below(id, Len(modules))

BoxesOverlap(m, n) ==
    /\ m.x < n.x + MODULE_WIDTH /\ n.x < m.x + MODULE_WIDTH
    /\ m.y < n.y + MODULE_HEIGHT /\ n.y < m.y + MODULE_HEIGHT

C21_ForestBoxesDisjoint ==
    (LaidOut /\ WellFormedForest) =>
        \A i, j \in 1..Len(modules) :
            i # j => /\ modules[i].placed /\ modules[j].placed
                     /\ ~BoxesOverlap(modules[i], modules[j])

C21_Witness ==
    /\ LaidOut /\ WellFormedForest
    /\ Len(modules) = 3
    /\ \E i \in 1..Len(modules) : modules[i].level = 2

(***************************************************************************)
(* C22: indentation does not influence layout: two DSL texts that differ   *)
(* only in the leading whitespace of their lines yield the same x, y for   *)
(* every module, the same position for every storage and the same viewBox. *)
(***************************************************************************)
\* The text with the leading whitespace of every line removed.
Unindented(text) == [i \in 1..Len(text) |-> [text[i] EXCEPT !.indent = 0]]

\* What generate_svg returns for a text.
MarkupOf(text) ==
    LET ps == parse(text)
        r == _calculate_positions(ps.modules, ps.connections, ps.conditionals)
    IN [mods |-> r.mods,
        out |-> Render(r.mods, ps.connections, ps.conditionals, ps.loops,
                       ps.storages, ps.levels)]

StoragesOf(markup) == SelectSeq(markup.groups, LAMBDA g : g.cls = "storage")

C22_IndentationIrrelevant ==
    (pc = "returned" /\ svg.kind = "chart") =>
        LET flat == MarkupOf(Unindented(chart_def))
        IN /\ flat.out.exc = "none"
           /\ SameLayout(modules, flat.mods)
           /\ StoragesOf(svg) = StoragesOf(flat.out.svg)
           /\ svg.viewBox = flat.out.svg.viewBox

(***************************************************************************)
(* C23 as claimed: a loop arc is anchored beneath the source of the first  *)
(* connection (in declaration order) whose target is a covered id and      *)
(* whose source is not covered; if there is no such connection, beneath a  *)
(* module whose level is one less than the smallest level among the        *)
(* covered modules; and if there is none, beneath the first covered module *)
(* itself.                                                                 *)
(***************************************************************************)
LoopGroups == SelectSeq(svg.groups, LAMBDA g : g.cls = "loop")

\* The loops of the text that cover at least one declared module.
CoveredModules(ids) == SelectSeq(ids, LAMBDA id : id \in DeclaredIds(chart_def))
DrawnLoops == SelectSeq(loops, LAMBDA ids : CoveredModules(ids) # <<>>)

Incoming(ids) ==
    {i \in 1..Len(connections) :
        InSeq(connections[i].to, ids) /\ ~InSeq(connections[i].from, ids)}

LoopLevel(ids) ==
    Min({Lookup(modules, CoveredModules(ids)[i]).level
           : i \in 1..Len(CoveredModules(ids))})

OneLevelUp(ids) == {i \in 1..Len(modules) : modules[i].level = LoopLevel(ids) - 1}

AnchorBelow(g, id) ==
    /\ g.parent = id
    /\ HasKey(modules, id)
    /\ g.cx = Lookup(modules, id).x + MODULE_WIDTH \div 2
    /\ g.cy > Lookup(modules, id).y + MODULE_HEIGHT

C23_AnchorUnderFirstSource ==
    (pc = "returned" /\ svg.kind = "chart") =>
        /\ Len(LoopGroups) = Len(DrawnLoops)
        /\ \A n \in 1..Len(LoopGroups) :
              LET ids == DrawnLoops[n]
                  g == LoopGroups[n]
              IN IF Incoming(ids) # {}
                 THEN AnchorBelow(g, connections[Min(Incoming(ids))].from)
                 ELSE IF OneLevelUp(ids) # {}
                 THEN \E i \in OneLevelUp(ids) : AnchorBelow(g, modules[i].id)
                 ELSE AnchorBelow(g, CoveredModules(ids)[1])

(***************************************************************************)
(* C23 as amended: the arc is anchored beneath the source of the first     *)
(* connection whose target is a covered id and whose source is a DECLARED  *)
(* module that is not covered (connections from undeclared ids are passed  *)
(* over); if there is none, beneath the first module in declaration order  *)
(* whose layout level is one less than the smallest level among the        *)
(* covered modules; and if there is none, beneath the first covered        *)
(* module of the loop's list.                                              *)
(***************************************************************************)
IncomingDeclared(ids) ==
    {i \in Incoming(ids) : connections[i].from \in DeclaredIds(chart_def)}

C23_AnchorUnderFirstDeclaredSource ==
    (pc = "returned" /\ svg.kind = "chart") =>
        /\ Len(LoopGroups) = Len(DrawnLoops)
        /\ \A n \in 1..Len(LoopGroups) :
              LET ids == DrawnLoops[n]
                  g == LoopGroups[n]
              IN IF IncomingDeclared(ids) # {}
                 THEN AnchorBelow(g, connections[Min(IncomingDeclared(ids))].from)
                 ELSE IF OneLevelUp(ids) # {}
                 THEN AnchorBelow(g, modules[Min(OneLevelUp(ids))].id)
                 ELSE AnchorBelow(g, CoveredModules(ids)[1])

C23_Witness ==
    /\ pc = "returned" /\ svg.kind = "chart"
    /\ \E n \in 1..Len(LoopGroups) :
          /\ IncomingDeclared(DrawnLoops[n]) # {}
          /\ Min(Incoming(DrawnLoops[n])) < Min(IncomingDeclared(DrawnLoops[n]))

(***************************************************************************)
(* C24: parse() never raises, and a non-blank line that matches no         *)
(* declaration shape (a keyword line failing its pattern, a conditional    *)
(* with fewer than two ids, a line without '->', or a line containing '->' *)
(* that is not a well-formed 'from -> to ...') leaves modules, storages,   *)
(* connections, conditionals and loops unchanged.                          *)
(***************************************************************************)
IsKeywordLine(c) ==
    \E kw \in {"module", "library", "storage", "conditional", "loop"} : StartsWith(c, kw)

\* 'from -> to ...': one arrow with a word before it and a word after it.
WellFormedConnection(c) ==
    /\ Cardinality(ArrowAt(c)) = 1
    /\ \A k \in ArrowAt(c) : 1 < k /\ k < Len(c)

MatchesNoShape(l) ==
    LET c == l.toks
    IN /\ c # <<>>
       /\ ~(c[1].w = "#" /\ ~c[1].lq)
       /\ IF StartsWith(c, "module") \/ StartsWith(c, "library") \/ StartsWith(c, "storage")
          THEN ~DeclMatch(c).ok
          ELSE IF StartsWith(c, "conditional") THEN Len(c) < 3
          ELSE IF StartsWith(c, "loop") THEN ~(Len(c) >= 3 /\ c[2] = W("over"))
          ELSE ~WellFormedConnection(c)

SameCollections(ps, qs) ==
    /\ ps.modules = qs.modules
    /\ ps.storages = qs.storages
    /\ ps.connections = qs.connections
    /\ ps.conditionals = qs.conditionals
    /\ ps.loops = qs.loops

\* The line is not the first of the text (whose indentation parse drops).
C24_UnmatchedLinesIgnored ==
    pc # "constructed" =>
        /\ parse(chart_def).exc = "none"
        /\ \A k \in 2..Len(chart_def) :
              MatchesNoShape(chart_def[k]) =>
                  SameCollections(parse(chart_def), parse(RemoveAt(chart_def, k)))

(***************************************************************************)
(* C25: when the same id is declared more than once (as module or library, *)
(* in any combination), the diagram holds a single module for that id, and *)
(* it carries the label and the kind (module/library) of the last          *)
(* declaration.                                                            *)
(***************************************************************************)
DeclsOf(id) == {i \in DeclLines(chart_def) : chart_def[i].toks[2].w = id}
LastDecl(id) == chart_def[Max(DeclsOf(id))].toks

C25_LastDeclarationWins ==
    pc # "constructed" =>
        \A id \in DeclaredIds(chart_def) :
            /\ Cardinality({i \in 1..Len(modules) : modules[i].id = id}) = 1
            /\ Lookup(modules, id).label = DeclMatch(LastDecl(id)).label
            /\ Lookup(modules, id).type = LastDecl(id)[1].w

C25_Witness ==
    /\ pc = "returned"
    /\ \E id \in DeclaredIds(chart_def) :
          \E i, j \in DeclsOf(id) :
              /\ i < j /\ j = Max(DeclsOf(id))
              /\ chart_def[i].toks[1] # chart_def[j].toks[1]
              /\ DeclMatch(chart_def[i].toks).label # DeclMatch(chart_def[j].toks).label

(***************************************************************************)
(* C26: for every module, library or storage declaration line, at any      *)
(* position in the text including the first line, the level recorded by    *)
(* the parser is floor(number of leading spaces of that line / 2).         *)
(***************************************************************************)
C26_LevelIsHalfIndent ==
    pc = "parsed" =>
        /\ \A id \in DeclaredIds(chart_def) :
              Lookup(modules, id).level = chart_def[Max(DeclsOf(id))].indent \div 2
        /\ \A id \in DeclaredIds(chart_def) :
              \A k \in DeclsOf(id) :
                  /\ (chart_def[k].indent \div 2) \in DOMAIN levels
                  /\ InSeq(id, levels[chart_def[k].indent \div 2])

(***************************************************************************)
(* C27: label wrapping puts every word of the label on exactly one line,   *)
(* in the original order, produces no empty line, starts a new line only   *)
(* when appending the next word would make the current line longer than    *)
(* 16 characters, and so every line holding two or more words is at most   *)
(* 16 characters long (only a single word can exceed the budget).          *)
(***************************************************************************)
LabelOf(text) == DeclMatch(text[1].toks).label

C27_GreedyWrap ==
    (pc = "returned" /\ svg.kind = "chart") =>
        \A n \in 1..Len(ModuleGroups) :
            LET ls == ModuleGroups[n].lines
            IN /\ Flatten(ls) = LabelOf(chart_def)
               /\ \A k \in 1..Len(ls) : ls[k] # <<>>
               /\ \A k \in 1..(Len(ls) - 1) :
                     Len(JoinWords(Append(ls[k], ls[k + 1][1]))) > 16
               /\ \A k \in 1..Len(ls) :
                     Len(ls[k]) >= 2 => Len(JoinWords(ls[k])) <= 16

C27_Witness ==
    /\ pc = "returned" /\ svg.kind = "chart"
    /\ \E n \in 1..Len(ModuleGroups) :
          LET ls == ModuleGroups[n].lines
          IN /\ \E k \in 1..Len(ls) : Len(ls[k]) = 2 /\ Len(JoinWords(ls[k])) = 16
             /\ \E k \in 1..Len(ls) : Len(JoinWords(ls[k])) > 16

(***************************************************************************)
(* C28: declaring one more connection between a (from, to) pair of         *)
(* declared modules that is already connected leaves the x, y of every     *)
(* module unchanged: the layout of the text equals the layout of the text  *)
(* without the repeated connection line.                                   *)
(***************************************************************************)
IsParallelLine(text, k) ==
    /\ IsConnLine(text[k])
    /\ ConnOfLine(text[k]).from \in DeclaredIds(text)
    /\ ConnOfLine(text[k]).to \in DeclaredIds(text)
    /\ \E j \in 1..(k - 1) :
          /\ IsConnLine(text[j])
          /\ ConnOfLine(text[j]).from = ConnOfLine(text[k]).from
          /\ ConnOfLine(text[j]).to = ConnOfLine(text[k]).to

C28_ParallelEdgeKeepsLayout ==
    LaidOut =>
        \A k \in 1..Len(chart_def) :
            IsParallelLine(chart_def, k) =>
                LET r == LayoutOf(RemoveAt(chart_def, k))
                IN ~r.overflow /\ SameLayout(modules, r.mods)

(***************************************************************************)
(* C29: the preprocessor loses no document content.  When run() returns,   *)
(* every input line outside a structure-chart block has been emitted       *)
(* unchanged and in its original order, and every line that follows an     *)
(* opening fence has been compiled into an emitted container or emitted    *)
(* itself, also when the closing fence is missing or a second opening      *)
(* fence appears before the closing one.                                   *)
(***************************************************************************)
IsFence(l) == IsOpen(l) \/ IsClose(l)

\* The lines of the document outside every block (a block runs from an
\* opening fence to the next closing fence, or to the end of the document).
RECURSIVE OutsideBlocks(_, _)
OutsideBlocks(ls, inside) ==
    IF ls = <<>> THEN <<>>
    ELSE IF IsOpen(ls[1]) THEN OutsideBlocks(Tail(ls), TRUE)
    ELSE IF inside /\ IsClose(ls[1]) THEN OutsideBlocks(Tail(ls), FALSE)
    ELSE IF inside THEN OutsideBlocks(Tail(ls), TRUE)
    ELSE <<ls[1]>> \o OutsideBlocks(Tail(ls), FALSE)

\* The document lines run() has emitted as they are (the blank line that
\* ends a container is not one of them).
EmittedLines ==
    LET passed == SelectSeq(new_lines, LAMBDA o : o.kind = "line" /\ o.line.toks # <<>>)
    IN [k \in 1..Len(passed) |-> passed[k].line]

RECURSIVE CompiledLines(_)
CompiledLines(cs) ==
    IF cs = <<>> THEN <<>> ELSE cs[1].text \o CompiledLines(Tail(cs))

ContentLines(ls) == SelectSeq(ls, LAMBDA l : ~IsFence(l))

OutsideEmitted == run_pc = "returned" => EmittedLines = OutsideBlocks(run_lines, FALSE)

C29_NoContentLost ==
    run_pc = "returned" =>
        /\ EmittedLines = OutsideBlocks(run_lines, FALSE)
        /\ Len(ContentLines(run_lines))
              = Len(ContentLines(EmittedLines)) + Len(CompiledLines(compiled))
        /\ \A k \in 1..Len(compiled) :
              \E n \in 1..Len(new_lines) :
                  new_lines[n].kind = "svg" /\ new_lines[n].svg = compiled[k].svg

(***************************************************************************)
(* C30: within one processed document every emitted diagram container has  *)
(* an id that no other emitted container carries, and the expand control   *)
(* of a container passes the id of that container, so the control          *)
(* identifies exactly one container, also when two fenced blocks hold the  *)
(* same text.                                                              *)
(***************************************************************************)
ContainerAt(n) == n \in 1..Len(new_lines) /\ new_lines[n].kind = "div"

C30_ContainerIdsUnique ==
    /\ \A n, k \in 1..Len(new_lines) :
          (ContainerAt(n) /\ ContainerAt(k) /\ n # k) =>
              new_lines[n].id # new_lines[k].id
    /\ \A n \in 1..Len(new_lines) :
          ContainerAt(n) =>
              /\ new_lines[n + 2].kind = "button"
              /\ new_lines[n + 2].id = new_lines[n].id

====
